---------------------------- MODULE Spec2Model ----------------------------
(***************************************************************************)
(* Finance tracker: the Transaction table (models.py), the request         *)
(* handlers that write and read it (app.py) and the analytics engine       *)
(* (ml/recommender.py): next-month expense forecast and recommendations.   *)
(*                                                                         *)
(* Amounts are exact integers (currency units); every real number the      *)
(* engine computes is an exact rational <<num, den>> in lowest terms with  *)
(* den > 0.  A date is [y, m]: the day of the month is read by no code     *)
(* modelled here.                                                          *)
(***************************************************************************)
EXTENDS Integers, Sequences, FiniteSets, TLC

VARIABLES rows, resp, inflight

vars == <<rows, resp, inflight>>

(***************************************************************************)
(* Exact rational arithmetic                                               *)
(***************************************************************************)
Abs(n) == IF n < 0 THEN -n ELSE n

RECURSIVE Gcd(_, _)
Gcd(a, b) == IF b = 0 THEN a ELSE Gcd(b, a % b)

Rat(n, d) ==
    LET g == Gcd(Abs(n), Abs(d))
        s == IF d < 0 THEN -1 ELSE 1
    IN  <<(s * n) \div g, (s * d) \div g>>

RInt(n) == <<n, 1>>
RAdd(p, q) == Rat(p[1] * q[2] + q[1] * p[2], p[2] * q[2])
RSub(p, q) == Rat(p[1] * q[2] - q[1] * p[2], p[2] * q[2])
RMul(p, q) == Rat(p[1] * q[1], p[2] * q[2])
RDiv(p, q) == Rat(p[1] * q[2], p[2] * q[1])
RLess(p, q) == p[1] * q[2] < q[1] * p[2]
RMax(p, q) == IF RLess(p, q) THEN q ELSE p

\* Python's format(x, '.0f'): the nearest integer, ties to the even one.
RoundHalfEven(p) ==
    LET f == p[1] \div p[2]
        r2 == 2 * (p[1] - f * p[2])
    IN  IF r2 < p[2] THEN f
        ELSE IF r2 > p[2] THEN f + 1
        ELSE IF f % 2 = 0 THEN f ELSE f + 1

(***************************************************************************)
(* Table and dataframe helpers                                             *)
(***************************************************************************)
Reverse(s) == [i \in 1..Len(s) |-> s[Len(s) + 1 - i]]

RECURSIVE SumAmount(_)
SumAmount(df) ==
    IF df = <<>> THEN 0 ELSE df[1].amount + SumAmount(Tail(df))

\* The key of a dataframe row or of a group, lexicographically compared.
RECURSIVE LexLess(_, _)
LexLess(a, b) ==
    IF a = <<>> THEN b # <<>>
    ELSE IF b = <<>> THEN FALSE
    ELSE IF a[1] # b[1] THEN a[1] < b[1]
    ELSE LexLess(Tail(a), Tail(b))

\* Insertion of g into a sequence of groups kept ascending by key.
RECURSIVE InsertByKey(_, _)
InsertByKey(g, s) ==
    IF s = <<>> THEN <<g>>
    ELSE IF LexLess(g.key, s[1].key) THEN <<g>> \o s
    ELSE <<s[1]>> \o InsertByKey(g, Tail(s))

\* One pass over the rows: the row's amount joins the group of its key.
RECURSIVE AddToGroup(_, _, _)
AddToGroup(k, a, s) ==
    IF s = <<>> THEN <<>>
    ELSE IF s[1].key = k
         THEN <<[key |-> k, amount |-> s[1].amount + a]>> \o Tail(s)
         ELSE <<s[1]>> \o AddToGroup(k, a, Tail(s))


RECURSIVE GroupPass(_, _)
GroupPass(pairs, acc) ==
    IF pairs = <<>> THEN acc
    ELSE LET p == pairs[1]
         IN  GroupPass(Tail(pairs),
                       IF \E i \in 1..Len(acc) : acc[i].key = p.key
                       THEN AddToGroup(p.key, p.amount, acc)
                       ELSE Append(acc, p))

RECURSIVE SortGroups(_)
SortGroups(s) ==
    IF s = <<>> THEN <<>> ELSE InsertByKey(s[1], SortGroups(Tail(s)))

\* Mutant: the groups left in the order of their first row (sort=False).
GroupBySumUnsorted(pairs) == GroupPass(pairs, <<>>)

\* pandas groupby(key)[amount].sum(): one group per key, ascending by key.
GroupBySum(pairs) == SortGroups(GroupPass(pairs, <<>>))

\* Stable insertion into a sequence ascending by amount (numpy's sort of
\* a short array): g goes after every element that is not greater.
RECURSIVE InsertByAmount(_, _)
InsertByAmount(g, s) ==
    IF s = <<>> THEN <<g>>
    ELSE IF g.amount < s[1].amount THEN <<g>> \o s
    ELSE <<s[1]>> \o InsertByAmount(g, Tail(s))

RECURSIVE ArgsortAscending(_)
ArgsortAscending(s) ==
    IF s = <<>> THEN <<>>
    ELSE InsertByAmount(s[Len(s)], ArgsortAscending(SubSeq(s, 1, Len(s) - 1)))

\* Mutant: ascending=True.
SortValuesAscending(s) == ArgsortAscending(s)

\* pandas sort_values(ascending=False): reverse, sort ascending, reverse.
SortValuesDescending(s) == Reverse(ArgsortAscending(Reverse(s)))

Head3(s) == SubSeq(s, 1, IF Len(s) < 3 THEN Len(s) ELSE 3)

\* Characters are their ASCII codes.
Digit(d) == 48 + d
Hyphen == 45

\* Mutant: the month not zero-padded, so that '2024-10' sorts before '2024-2'.
PeriodStrUnpadded(date) ==
    << Digit(date.y \div 1000), Digit((date.y \div 100) % 10),
       Digit((date.y \div 10) % 10), Digit(date.y % 10), Hyphen >>
    \o (IF date.m < 10 THEN <<Digit(date.m)>>
        ELSE <<Digit(date.m \div 10), Digit(date.m % 10)>>)

\* date.dt.to_period('M').astype(str): 'YYYY-MM', the month zero-padded.
PeriodStr(date) ==
    << Digit(date.y \div 1000), Digit((date.y \div 100) % 10),
       Digit((date.y \div 10) % 10), Digit(date.y % 10), Hyphen,
       Digit(date.m \div 10), Digit(date.m % 10) >>

(***************************************************************************)
(* ml/recommender.py                                                       *)
(***************************************************************************)
\* Mutant: the rows of every user.
QueryEveryUser(db, user_id) ==
    [i \in 1..Len(db) |->
        [date |-> db[i].date, amount |-> db[i].amount,
         type |-> db[i].ttype, category |-> db[i].category]]

\* The user's rows of table db as a dataframe, in the table's order.
_query_user_df(db, user_id) ==
    LET mine == SelectSeq(db, LAMBDA r : r.user_id = user_id)
    IN  [i \in 1..Len(mine) |->
            [date |-> mine[i].date, amount |-> mine[i].amount,
             type |-> mine[i].ttype, category |-> mine[i].category]]

Expenses(df) == SelectSeq(df, LAMBDA r : r.type = "expense")
Incomes(df) == SelectSeq(df, LAMBDA r : r.type = "income")

\* expenses.groupby('ym')['amount'].sum()
MonthlyExpense(df) ==
    LET e == Expenses(df)
    IN  GroupBySum([i \in 1..Len(e) |->
                       [key |-> PeriodStr(e[i].date), amount |-> e[i].amount]])

\* df[type == 'expense'].groupby('category')['amount'].sum()
CategoryExpense(df) ==
    LET e == Expenses(df)
    IN  GroupBySum([i \in 1..Len(e) |->
                       [key |-> e[i].category, amount |-> e[i].amount]])

RECURSIVE SumIdxCentred(_, _, _, _)
\* Sum over i of (i - xbar) * (y[i] - ybar), on rationals.
SumIdxCentred(m, i, xbar, ybar) ==
    IF i > Len(m) THEN RInt(0)
    ELSE RAdd(RMul(RSub(RInt(i), xbar), RSub(RInt(m[i].amount), ybar)),
              SumIdxCentred(m, i + 1, xbar, ybar))

RECURSIVE SumIdxSquares(_, _, _)
SumIdxSquares(n, i, xbar) ==
    IF i > n THEN RInt(0)
    ELSE RAdd(RMul(RSub(RInt(i), xbar), RSub(RInt(i), xbar)),
              SumIdxSquares(n, i + 1, xbar))

\* LinearRegression().fit(X, y) with X = 1..n: centre X and y, solve the
\* least-squares problem for the slope, recover the intercept.
LinearRegressionFit(m) ==
    LET n == Len(m)
        xbar == Rat(n * (n + 1), 2 * n)
        ybar == Rat(SumAmount(m), n)
        coef == RDiv(SumIdxCentred(m, 1, xbar, ybar), SumIdxSquares(n, 1, xbar))
    IN  [coef |-> coef, intercept |-> RSub(ybar, RMul(xbar, coef))]

ModelPredict(model, x) == RAdd(model.intercept, RMul(model.coef, RInt(x)))

\* Mutant: the fitted line taken at the last index, not the one after it.
predict_at_last_index(db, user_id) ==
    LET df == _query_user_df(db, user_id)
        m == MonthlyExpense(df)
    IN  IF df = <<>> THEN RInt(0)
        ELSE IF Expenses(df) = <<>> THEN RInt(0)
        ELSE IF Len(m) < 2 THEN RInt(m[Len(m)].amount)
        ELSE RMax(ModelPredict(LinearRegressionFit(m), Len(m)), RInt(0))

predict_next_month_expense(db, user_id) ==
    LET df == _query_user_df(db, user_id)
        m == MonthlyExpense(df)
    IN  IF df = <<>> THEN RInt(0)
        ELSE IF Expenses(df) = <<>> THEN RInt(0)
        ELSE IF Len(m) < 2 THEN RInt(m[Len(m)].amount)
        ELSE RMax(ModelPredict(LinearRegressionFit(m), Len(m) + 1), RInt(0))

GuardItem == [rule |-> "no_data"]

\* a / b on numbers: Python raises ZeroDivisionError when b is 0.
ZeroDivisionError == <<0, 0>>
TrueDiv(a, b) == IF b = 0 THEN ZeroDivisionError ELSE Rat(a, b)

\* Mutant: the guard lets a total income of 0 through to the division.
SavingsItemsUnguarded(total_income, total_expense) ==
    IF total_income >= 0
    THEN LET quotient == TrueDiv(total_income - total_expense, total_income)
             savings_rate == RMax(quotient, RInt(0))
         IN  IF quotient = ZeroDivisionError
             THEN <<[rule |-> "raise"]>>
             ELSE <<[rule |-> "savings_rate",
                     pct1 |-> RoundHalfEven(RMul(savings_rate, RInt(1000)))]>>
    ELSE <<[rule |-> "add_income"]>>

\* Rule 2 (lines 59-63); pct1 is the percentage as printed by :.1f, in tenths.
SavingsItems(total_income, total_expense) ==
    IF total_income > 0
    THEN LET quotient == TrueDiv(total_income - total_expense, total_income)
             savings_rate == RMax(quotient, RInt(0))
         IN  IF quotient = ZeroDivisionError
             THEN <<[rule |-> "raise"]>>
             ELSE <<[rule |-> "savings_rate",
                     pct1 |-> RoundHalfEven(RMul(savings_rate, RInt(1000)))]>>
    ELSE <<[rule |-> "add_income"]>>

\* Rule 3 (lines 65-68); amount0 is the total as printed by :.0f.
CategoryItems(df) ==
    LET top3 == Head3(SortValuesDescending(CategoryExpense(df)))
    IN  [i \in 1..Len(top3) |->
            [rule |-> "category", category |-> top3[i].key,
             amount0 |-> RoundHalfEven(RInt(top3[i].amount))]]

\* Mutant: fires already when last equals 1.2 times the prior average.
VolatilityItemsAtLeast(df) ==
    LET monthly == MonthlyExpense(df)
        n == Len(monthly)
    IN  IF Expenses(df) # <<>> /\ n >= 2
        THEN LET last == RInt(monthly[n].amount)
                 prev_avg == Rat(SumAmount(SubSeq(monthly, 1, n - 1)), n - 1)
             IN  IF ~RLess(last, RMul(Rat(12, 10), prev_avg))
                 THEN <<[rule |-> "volatility"]>>
                 ELSE <<>>
        ELSE <<>>

\* Rule 4 (lines 70-78)
VolatilityItems(df) ==
    LET monthly == MonthlyExpense(df)
        n == Len(monthly)
    IN  IF Expenses(df) # <<>> /\ n >= 2
        THEN LET last == RInt(monthly[n].amount)
                 prev_avg == Rat(SumAmount(SubSeq(monthly, 1, n - 1)), n - 1)
             IN  IF RLess(RMul(Rat(12, 10), prev_avg), last)
                 THEN <<[rule |-> "volatility"]>>
                 ELSE <<>>
        ELSE <<>>

\* Rule 5 (lines 80-85)
ForecastItems(total_income, pred) ==
    IF total_income > 0
    THEN LET target_save == RMax(RMul(RInt(total_income), Rat(2, 10)), RInt(0))
         IN  <<[rule |-> "forecast_target", pred0 |-> RoundHalfEven(pred),
                target0 |-> RoundHalfEven(target_save)]>>
    ELSE <<[rule |-> "forecast_add_income", pred0 |-> RoundHalfEven(pred)]>>

\* Mutant: the volatility check made before the category suggestions.
RecommendationsVolatilityFirst(db, db2, user_id) ==
    LET df == _query_user_df(db, user_id)
        total_income == SumAmount(Incomes(df))
        total_expense == SumAmount(Expenses(df))
    IN  IF df = <<>> THEN <<GuardItem>>
        ELSE SavingsItems(total_income, total_expense)
             \o VolatilityItems(df)
             \o CategoryItems(df)
             \o ForecastItems(total_income,
                              predict_next_month_expense(db2, user_id))

\* db is the table as read by the function's own query (line 51), db2 the
\* table as read by the nested predict_next_month_expense call (line 80).
generate_recommendations(db, db2, user_id) ==
    LET df == _query_user_df(db, user_id)
        total_income == SumAmount(Incomes(df))
        total_expense == SumAmount(Expenses(df))
    IN  IF df = <<>> THEN <<GuardItem>>
        ELSE SavingsItems(total_income, total_expense)
             \o CategoryItems(df)
             \o VolatilityItems(df)
             \o ForecastItems(total_income,
                              predict_next_month_expense(db2, user_id))

(***************************************************************************)
(* models.py: the Transaction table, a sequence of rows ascending by id    *)
(***************************************************************************)
Users == {1, 2}

Food == <<70, 111, 111, 100>>
Other == <<79, 116, 104, 101, 114>>
Rent == <<82, 101, 110, 116>>
Travel == <<84, 114, 97, 118, 101, 108>>

Transaction(id, user_id, date, amount, ttype, category) ==
    [id |-> id, user_id |-> user_id, date |-> date, amount |-> amount,
     ttype |-> ttype, category |-> category]

\* The integer primary key of an inserted row: one more than the largest.
NewId(db) == IF db = <<>> THEN 1 ELSE db[Len(db)].id + 1

(***************************************************************************)
(* app.py: request handlers.  user is the logged-in user of the session.   *)
(* A submitted date or amount is what strptime / float make of its text:   *)
(* [ok |-> FALSE] when the text does not parse.                            *)
(***************************************************************************)
MaxRows == 2
MaxId == 3
MaxUpload == 2

Redirect == [kind |-> "redirect"]
Form == [kind |-> "form"]
ServerError == [kind |-> "error", user |-> 0]
Json(success) == [kind |-> "json", success |-> success]

\* f'{year:04d}' and strftime('%Y', date); f'{month:02d}' and strftime('%m').
YearStr(y) ==
    << Digit(y \div 1000), Digit((y \div 100) % 10), Digit((y \div 10) % 10),
       Digit(y % 10) >>
MonthStr(m) == << Digit(m \div 10), Digit(m % 10) >>

Lower(ttype) ==
    CASE ttype = "Expense" -> "expense"
      [] ttype = "Income" -> "income"
      [] OTHER -> ttype

add_transaction(user, date, amount, ttype, category) ==
    /\ UNCHANGED inflight
    /\ Len(rows) < MaxRows
    /\ NewId(rows) <= MaxId
    /\ IF ~date.ok THEN
           /\ resp' = Form
           /\ UNCHANGED rows
       ELSE IF ~amount.ok THEN
           /\ resp' = ServerError
           /\ UNCHANGED rows
       ELSE IF ttype \notin {"income", "expense"} THEN
           /\ resp' = Form
           /\ UNCHANGED rows
       ELSE
           /\ rows' = Append(rows, Transaction(NewId(rows), user,
                                 [y |-> date.y, m |-> date.m], amount.v,
                                 ttype, category))
           /\ resp' = Redirect

\* The rows of the file that the loop of lines 124-137 adds, in file order.
RECURSIVE Imported(_, _, _)
Imported(user, csv, id) ==
    IF csv = <<>> THEN <<>>
    ELSE LET row == csv[1]
         IN  IF row.date.ok /\ row.amount.ok
                /\ Lower(row.type) \in {"income", "expense"}
             THEN <<Transaction(id, user, [y |-> row.date.y, m |-> row.date.m],
                                row.amount.v, Lower(row.type), row.category)>>
                  \o Imported(user, Tail(csv), id + 1)
             ELSE Imported(user, Tail(csv), id)

upload_transactions(user, file) ==
    /\ UNCHANGED inflight
    /\ IF ~file.present \/ ~file.headers THEN
           /\ resp' = Form
           /\ UNCHANGED rows
       ELSE
           LET new == Imported(user, file.rows, NewId(rows))
           IN  /\ Len(rows) + Len(new) <= MaxRows
               /\ NewId(rows) + Len(new) - 1 <= MaxId
               /\ rows' = rows \o new
               /\ resp' = Redirect

delete_transaction(user, txn_id) ==
    /\ UNCHANGED inflight
    /\ IF \E i \in 1..Len(rows) : rows[i].id = txn_id /\ rows[i].user_id = user
       THEN /\ rows' = SelectSeq(rows, LAMBDA r : r.id # txn_id)
            /\ resp' = Json(TRUE)
       ELSE /\ resp' = Json(FALSE)
            /\ UNCHANGED rows

delete_month(user, year, month) ==
    /\ UNCHANGED inflight
    /\ IF year = 0 \/ month = 0
       THEN /\ resp' = Json(FALSE)
            /\ UNCHANGED rows
       ELSE /\ rows' = SelectSeq(rows, LAMBDA r :
                           ~(/\ r.user_id = user
                             /\ YearStr(r.date.y) = YearStr(year)
                             /\ MonthStr(r.date.m) = MonthStr(month)))
            /\ resp' = Json(TRUE)

delete_year(user, year) ==
    /\ UNCHANGED inflight
    /\ IF year = 0
       THEN /\ resp' = Json(FALSE)
            /\ UNCHANGED rows
       ELSE /\ rows' = SelectSeq(rows, LAMBDA r :
                           ~(r.user_id = user /\ YearStr(r.date.y) = YearStr(year)))
            /\ resp' = Json(TRUE)

_apply_year_month_filters(query, year, month) ==
    SelectSeq(query, LAMBDA r :
        /\ (year # 0 => YearStr(r.date.y) = YearStr(year))
        /\ (month # 0 => MonthStr(r.date.m) = MonthStr(month)))

\* The rows of the response: per category of the user's (filtered) rows the
\* sum of its expense amounts, the categories with a sum > 0 only.
CategoryBreakdown(db, user, year, month) ==
    LET q == _apply_year_month_filters(
                 SelectSeq(db, LAMBDA r : r.user_id = user), year, month)
        grouped == GroupBySum([i \in 1..Len(q) |->
                       [key |-> q[i].category,
                        amount |-> IF q[i].ttype = "expense"
                                   THEN q[i].amount ELSE 0]])
    IN  SelectSeq(grouped, LAMBDA g : g.amount > 0)

api_category_breakdown(user, year, month) ==
    /\ UNCHANGED inflight
    /\ resp' = [kind |-> "category_breakdown", user |-> user,
                body |-> CategoryBreakdown(rows, user, year, month)]
    /\ UNCHANGED rows

\* An exception raised in the engine leaves the handler as a 500 response.
api_recommendations(user) ==
    LET recs == generate_recommendations(rows, rows, user)
        pred == predict_next_month_expense(rows, user)
    IN  /\ resp' = IF \E i \in 1..Len(recs) : recs[i].rule = "raise"
                   THEN [kind |-> "error", user |-> user]
                   ELSE [kind |-> "recommendations", user |-> user,
                         recommendations |-> recs,
                         next_month_expense_prediction |-> pred]
        /\ UNCHANGED <<rows, inflight>>

(***************************************************************************)
(* The application: requests of logged-in users on an empty table          *)
(***************************************************************************)
NoDate == [ok |-> FALSE]
NoAmount == [ok |-> FALSE]
Date(y, m) == [ok |-> TRUE, y |-> y, m |-> m]
Amount(v) == [ok |-> TRUE, v |-> v]

FormDates == {Date(2024, 2), Date(2024, 10), Date(2025, 2), NoDate}
FormAmounts == {Amount(-50), Amount(0), Amount(100), NoAmount}
FormTypes == {"income", "expense", "transfer"}
FormCategories == {Food}
FormYears == {0, 2024, 2025}
FormMonths == {0, 2, 10}

CsvRow(date, amount, type) ==
    [date |-> date, amount |-> amount, type |-> type, category |-> Rent]

CsvRows ==
    {CsvRow(Date(2024, 2), Amount(-50), "Expense"),
     CsvRow(Date(2025, 2), Amount(100), "income"),
     CsvRow(NoDate, Amount(100), "expense"),
     CsvRow(Date(2024, 2), NoAmount, "expense"),
     CsvRow(Date(2024, 2), Amount(100), "transfer")}

RECURSIVE SeqsUpTo(_, _)
SeqsUpTo(S, n) ==
    IF n = 0 THEN {<<>>}
    ELSE LET shorter == SeqsUpTo(S, n - 1)
         IN  shorter \cup {Append(s, x) : s \in {t \in shorter : Len(t) = n - 1},
                                          x \in S}

Files ==
    {[present |-> FALSE, headers |-> FALSE, rows |-> <<>>],
     [present |-> TRUE, headers |-> FALSE, rows |-> <<>>]}
    \cup [present : {TRUE}, headers : {TRUE}, rows : SeqsUpTo(CsvRows, MaxUpload)]

None == [kind |-> "none"]

\* No recommendations request is between two of its queries.
Idle == [pc |-> "idle"]

Init ==
    /\ rows = <<>>
    /\ resp = None
    /\ inflight = Idle

Next ==
    \/ \E u \in Users, d \in FormDates, a \in FormAmounts, t \in FormTypes,
          c \in FormCategories : add_transaction(u, d, a, t, c)
    \/ \E u \in Users, f \in Files : upload_transactions(u, f)
    \/ \E u \in Users, id \in 1..MaxId : delete_transaction(u, id)
    \/ \E u \in Users, y \in FormYears, m \in FormMonths : delete_month(u, y, m)
    \/ \E u \in Users, y \in FormYears : delete_year(u, y)
    \/ \E u \in Users, y \in FormYears, m \in FormMonths :
          api_category_breakdown(u, y, m)
    \/ \E u \in Users : api_recommendations(u)

Spec == Init /\ [][Next]_vars

(***************************************************************************)
(* The engine on given tables: Init draws the table, the two read          *)
(* handlers apply the engine to it.                                        *)
(***************************************************************************)
Tx(user_id, y, m, amount, ttype, category) ==
    [user_id |-> user_id, date |-> [y |-> y, m |-> m], amount |-> amount,
     ttype |-> ttype, category |-> category]

RECURSIVE SetToSeq(_)
SetToSeq(S) ==
    IF S = {} THEN <<>>
    ELSE LET x == CHOOSE x \in S : TRUE IN <<x>> \o SetToSeq(S \ {x})

\* The non-decreasing index sequences of length k over lo..hi.
RECURSIVE NonDecreasing(_, _, _)
NonDecreasing(k, lo, hi) ==
    IF k = 0 THEN {<<>>}
    ELSE UNION {{<<i>> \o t : t \in NonDecreasing(k - 1, i, hi)} : i \in lo..hi}

WithIds(contents) ==
    [i \in 1..Len(contents) |->
        Transaction(i, contents[i].user_id, contents[i].date, contents[i].amount,
                    contents[i].ttype, contents[i].category)]

\* Every multiset of at most n rows over S, as one table each.
TablesOver(S, n) ==
    LET c == SetToSeq(S)
    IN  UNION {{WithIds([i \in 1..k |-> c[idx[i]]]) :
                   idx \in NonDecreasing(k, 1, Len(c))} : k \in 0..n}

\* Every sequence of at most n rows over S, as one table each.
TablesInEveryOrder(S, n) == {WithIds(t) : t \in SeqsUpTo(S, n)}

MaxForecastRows == 4
MaxCategoryRows == 4
MaxEngineRows == 4
MaxShuffleRows == 3

ForecastRows ==
    {Tx(1, d[1], d[2], a, "expense", Food) :
        d \in {<<2023, 12>>, <<2024, 2>>, <<2024, 10>>, <<2025, 1>>},
        a \in {100, 300}}
    \cup {Tx(1, 2024, 2, 0, "expense", Food),
          Tx(1, 2024, 2, -100, "expense", Food),
          Tx(1, 2024, 10, 100, "income", Food),
          Tx(2, 2024, 2, 100, "expense", Food)}

CategoryRows ==
    {Tx(1, 2024, 2, a, "expense", c) :
        c \in {Food, Other, Rent, Travel}, a \in {0, 50, 300}}
    \cup {Tx(1, 2024, 2, 100, "income", Food),
          Tx(2, 2024, 2, 300, "expense", Rent)}

EngineRows ==
    {Tx(1, 2024, m, a, "expense", c) :
        m \in {2, 10}, a \in {100, 300}, c \in {Food, Rent}}
    \cup {Tx(1, 2024, 2, a, "income", Other) : a \in {0, 100, 500}}
    \cup {Tx(2, 2024, 2, 100, "expense", Food)}

ShuffleRows ==
    {Tx(1, d[1], d[2], a, "expense", Food) :
        d \in {<<2024, 2>>, <<2024, 10>>, <<2025, 1>>}, a \in {100, 300}}
    \cup {Tx(1, 2024, 10, 100, "income", Food),
          Tx(2, 2024, 2, 100, "expense", Food)}

InitForecast ==
    /\ rows \in TablesOver(ForecastRows, MaxForecastRows)
    /\ resp = None
    /\ inflight = Idle

InitCategories ==
    /\ rows \in TablesOver(CategoryRows, MaxCategoryRows)
    /\ resp = None
    /\ inflight = Idle

InitEngine ==
    /\ rows \in TablesOver(EngineRows, MaxEngineRows)
    /\ resp = None
    /\ inflight = Idle

InitShuffle ==
    /\ rows \in TablesInEveryOrder(ShuffleRows, MaxShuffleRows)
    /\ resp = None
    /\ inflight = Idle

NextEngine ==
    \/ \E u \in Users : api_recommendations(u)
    \/ \E u \in Users, ym \in {<<0, 0>>, <<2024, 2>>} :
          api_category_breakdown(u, ym[1], ym[2])

SpecForecast == InitForecast /\ [][NextEngine]_vars
SpecCategories == InitCategories /\ [][NextEngine]_vars
SpecEngine == InitEngine /\ [][NextEngine]_vars
SpecShuffle == InitShuffle /\ [][NextEngine]_vars

(***************************************************************************)
(* Reference definitions, on the set of stored rows                        *)
(***************************************************************************)
RowsOf(user) == {rows[i] : i \in {j \in 1..Len(rows) : rows[j].user_id = user}}
ExpensesOf(user) == {r \in RowsOf(user) : r.ttype = "expense"}
IncomesOf(user) == {r \in RowsOf(user) : r.ttype = "income"}

RECURSIVE Total(_)
Total(S) ==
    IF S = {} THEN 0
    ELSE LET r == CHOOSE r \in S : TRUE IN r.amount + Total(S \ {r})

\* Calendar months that hold an expense of the user, and their order in time.
ExpenseMonths(user) == {r.date : r \in ExpensesOf(user)}
Earlier(d, e) == d.y < e.y \/ (d.y = e.y /\ d.m < e.m)
MonthTotal(user, d) == Total({r \in ExpensesOf(user) : r.date = d})

\* The monthly expense series y[1..n]: the i-th month in time has i - 1
\* months before it.
Series(user) ==
    LET months == ExpenseMonths(user)
    IN  [i \in 1..Cardinality(months) |->
            MonthTotal(user, CHOOSE d \in months :
                Cardinality({e \in months : Earlier(e, d)}) = i - 1)]

RECURSIVE SumF(_, _)
\* Sum of f[i] over the domain 1..n of f, from n down.
SumF(f, n) == IF n = 0 THEN 0 ELSE f[n] + SumF(f, n - 1)

\* The least-squares line a + b*x through (1, y[1]) .. (n, y[n]), n >= 2,
\* from the sums of x, y, xy and x^2.
OlsLine(y) ==
    LET n == Len(y)
        Sx == SumF([i \in 1..n |-> i], n)
        Sy == SumF(y, n)
        Sxy == SumF([i \in 1..n |-> i * y[i]], n)
        Sxx == SumF([i \in 1..n |-> i * i], n)
        b == Rat(n * Sxy - Sx * Sy, n * Sxx - Sx * Sx)
    IN  [a |-> RDiv(RSub(RInt(Sy), RMul(b, RInt(Sx))), RInt(n)), b |-> b]

\* The normal equations of least squares: the residuals of the line sum to
\* zero and are orthogonal to x.
IsLeastSquares(line, y) ==
    LET n == Len(y)
        res == [i \in 1..n |->
                   RSub(RInt(y[i]), RAdd(line.a, RMul(line.b, RInt(i))))]
    IN  LET RECURSIVE Acc(_, _)
            Acc(i, w) == IF i = 0 THEN RInt(0)
                         ELSE RAdd(RMul(RInt(IF w THEN i ELSE 1), res[i]),
                                   Acc(i - 1, w))
        IN  Acc(n, FALSE) = RInt(0) /\ Acc(n, TRUE) = RInt(0)

ReferenceForecast(user) ==
    LET y == Series(user)
        n == Len(y)
        line == OlsLine(y)
        at == RAdd(line.a, RMul(line.b, RInt(n + 1)))
    IN  IF n = 0 THEN RInt(0)
        ELSE IF n = 1 THEN RInt(y[1])
        ELSE IF RLess(at, RInt(0)) THEN RInt(0) ELSE at

Recommended == resp.kind = "recommendations"

\* C1: the forecast a recommendations response carries is the reference
\* forecast of the user's monthly expense series: 0 for an empty series, the
\* single total for one month, and for n >= 2 months the least-squares line
\* through (1, y1) .. (n, yn) taken at n + 1 and floored at 0.
C1_ForecastIsReference ==
    Recommended =>
        /\ resp.next_month_expense_prediction = ReferenceForecast(resp.user)
        /\ Len(Series(resp.user)) >= 2 =>
               IsLeastSquares(OlsLine(Series(resp.user)), Series(resp.user))

\* The series [100, 100, 100, 300] over four months with a calendar gap.
C1_Witness ==
    /\ Recommended
    /\ Series(resp.user) = <<100, 100, 100, 300>>
    /\ resp.next_month_expense_prediction = RInt(300)

HasRule(recs, rule) == \E i \in 1..Len(recs) : recs[i].rule = rule

\* C8: the volatility warning is among the recommendations exactly when the
\* series has at least 2 months and the total of the latest month in time
\* exceeds 1.2 times the mean of the totals of all earlier months
\* (5 * (n - 1) * last > 6 * sum of the earlier ones).
C8_VolatilityIffLastExceeds ==
    Recommended =>
        LET y == Series(resp.user)
            n == Len(y)
        IN  HasRule(resp.recommendations, "volatility")
            <=> (n >= 2 /\ 5 * (n - 1) * y[n] > 6 * SumF(y, n - 1))

\* Fires for [100, 100, 100, 300].
C8_Witness ==
    /\ Recommended
    /\ Series(resp.user) = <<100, 100, 100, 300>>
    /\ HasRule(resp.recommendations, "volatility")

\* Does not fire at the boundary: [200, 300, 300], 300 = 1.2 * 250.
C8_WitnessBoundary ==
    /\ Recommended
    /\ Series(resp.user) = <<200, 300, 300>>
    /\ ~HasRule(resp.recommendations, "volatility")

\* C2: whatever requests were served, a forecast returned to a user is
\* never negative.
C2_ForecastNeverNegative ==
    Recommended => ~RLess(resp.next_month_expense_prediction, RInt(0))

\* C9: every stored transaction has amount >= 0.
C9_StoredAmountsNonNegative ==
    \A i \in 1..Len(rows) : rows[i].amount >= 0

\* The expense categories of the user with their summed expense.
ExpenseCategories(user) == {r.category : r \in ExpensesOf(user)}
CategoryTotal(user, c) == Total({r \in ExpensesOf(user) : r.category = c})

\* C10: given stored amounts >= 0, no category named by a category
\* breakdown or by a top-category recommendation has a summed expense of 0.
C10_NamedCategoriesPositive ==
    (\A i \in 1..Len(rows) : rows[i].amount >= 0) =>
        /\ resp.kind = "category_breakdown" =>
              \A i \in 1..Len(resp.body) : resp.body[i].amount > 0
        /\ Recommended =>
              \A i \in 1..Len(resp.recommendations) :
                  resp.recommendations[i].rule = "category" =>
                      CategoryTotal(resp.user,
                                    resp.recommendations[i].category) # 0

Permute(t, p) == [i \in 1..Len(t) |-> t[p[i]]]

\* C3: the forecast does not depend on the order of the transaction list:
\* computed from any permutation of the table it is the forecast computed
\* from the table.
C3_ForecastOrderIndependent ==
    Recommended =>
        \A p \in Permutations(1..Len(rows)) :
            predict_next_month_expense(Permute(rows, p), resp.user)
                = resp.next_month_expense_prediction

\* A table that lists a later month before an earlier one, with a rising
\* series, so that the order of the series matters to the fit.
C3_Witness ==
    /\ Recommended
    /\ Len(rows) = MaxShuffleRows
    /\ \A i \in 1..Len(rows) : rows[i].user_id = resp.user
    /\ Earlier(rows[2].date, rows[1].date)
    /\ Series(resp.user) = <<100, 300>>
    /\ resp.next_month_expense_prediction = RInt(500)

Answered == resp.kind \in {"recommendations", "error"}

\* C4: for a user without transactions the recommendations request raises
\* nothing, its forecast is 0 and its recommendations are the guard message
\* alone.
C4_NoDataGuard ==
    (Answered /\ RowsOf(resp.user) = {}) =>
        /\ Recommended
        /\ resp.next_month_expense_prediction = RInt(0)
        /\ resp.recommendations = <<GuardItem>>

\* A user without rows asks while the table holds rows of another user.
C4_Witness ==
    /\ Recommended
    /\ RowsOf(resp.user) = {}
    /\ rows # <<>>
    /\ resp.recommendations = <<GuardItem>>

\* The rule an item belongs to, by priority.
Priority(item) ==
    CASE item.rule \in {"savings_rate", "add_income"} -> 1
      [] item.rule = "category" -> 2
      [] item.rule = "volatility" -> 3
      [] item.rule \in {"forecast_target", "forecast_add_income"} -> 4
      [] OTHER -> 0

\* C5: for a user with transactions the recommendations come in priority
\* order: first the one savings-rate item (or its add-income prompt), then
\* the category items, then the volatility warning if any, last the one
\* forecast item; no item precedes an item of an earlier rule.
C5_PriorityOrder ==
    (Recommended /\ RowsOf(resp.user) # {}) =>
        LET recs == resp.recommendations
            n == Len(recs)
        IN  /\ n >= 2
            /\ Priority(recs[1]) = 1
            /\ Priority(recs[n]) = 4
            /\ \A i \in 2..(n - 1) : Priority(recs[i]) \in {2, 3}
            /\ \A i \in 1..(n - 1) : Priority(recs[i]) <= Priority(recs[i + 1])
            /\ Cardinality({i \in 1..n : Priority(recs[i]) = 3}) <= 1

\* All four rules contribute: rate, two categories, warning, target.
C5_Witness ==
    /\ Recommended
    /\ Len(resp.recommendations) = 5
    /\ [i \in 1..5 |-> resp.recommendations[i].rule]
          = <<"savings_rate", "category", "category", "volatility",
              "forecast_target">>

AbsDiff(a, b) == IF a < b THEN b - a ELSE a - b
Max0(a) == IF a < 0 THEN 0 ELSE a

\* C6: for a user with transactions, a total income > 0 gives a first item
\* reporting max((income - expense) / income, 0) (as a percentage, to the
\* nearest tenth) and a last item with the target max(0.2 * income, 0) (to
\* the nearest integer); a total income of 0 gives the two add-income
\* prompts instead, and the request raises nothing.
C6_IncomeGuard ==
    (Answered /\ RowsOf(resp.user) # {}) =>
        LET ti == Total(IncomesOf(resp.user))
            te == Total(ExpensesOf(resp.user))
            recs == resp.recommendations
            first == recs[1]
            last == recs[Len(recs)]
        IN  /\ ti > 0 =>
                /\ Recommended
                /\ first.rule = "savings_rate"
                /\ 2 * AbsDiff(first.pct1 * ti, 1000 * Max0(ti - te)) <= ti
                /\ last.rule = "forecast_target"
                /\ 2 * AbsDiff(5 * last.target0, Max0(ti)) <= 5
            /\ ti = 0 =>
                /\ Recommended
                /\ first.rule = "add_income"
                /\ last.rule = "forecast_add_income"

\* Income 500 and expense 400: the rate reported is 20.0%, the target 100.
C6_Witness ==
    /\ Recommended
    /\ Total(IncomesOf(resp.user)) = 500
    /\ Total(ExpensesOf(resp.user)) = 400
    /\ resp.recommendations[1] = [rule |-> "savings_rate", pct1 |-> 200]
    /\ resp.recommendations[Len(resp.recommendations)].target0 = 100

\* Income entries that sum to 0: the prompts, and no exception.
C6_WitnessZeroIncome ==
    /\ Recommended
    /\ IncomesOf(resp.user) # {}
    /\ Total(IncomesOf(resp.user)) = 0
    /\ resp.recommendations[1].rule = "add_income"

CategoryItemsOf(recs) == SelectSeq(recs, LAMBDA item : item.rule = "category")
Min(a, b) == IF a < b THEN a ELSE b

\* C7: the category items name min(3, k) distinct categories of the k
\* expense categories, each with its summed expense, in non-increasing order
\* of the sums, and no category left out has a larger sum than one named.
C7_TopCategories ==
    Recommended =>
        LET items == CategoryItemsOf(resp.recommendations)
            cats == ExpenseCategories(resp.user)
            named == {items[i].category : i \in 1..Len(items)}
        IN  /\ Len(items) = Min(3, Cardinality(cats))
            /\ Cardinality(named) = Len(items)
            /\ named \subseteq cats
            /\ \A i \in 1..Len(items) :
                  items[i].amount0 = CategoryTotal(resp.user, items[i].category)
            /\ \A i \in 1..(Len(items) - 1) :
                  items[i].amount0 >= items[i + 1].amount0
            /\ \A c \in named, d \in cats \ named :
                  CategoryTotal(resp.user, c) >= CategoryTotal(resp.user, d)

\* Four expense categories with distinct sums: the smallest is left out.
C7_Witness ==
    /\ Recommended
    /\ Cardinality(ExpenseCategories(resp.user)) = 4
    /\ CategoryTotal(resp.user, Rent) = 300
    /\ CategoryTotal(resp.user, Food) = 50
    /\ CategoryTotal(resp.user, Travel) = 50
    /\ CategoryTotal(resp.user, Other) = 0
    /\ LET items == CategoryItemsOf(resp.recommendations)
       IN  [i \in 1..Len(items) |-> items[i].category] = <<Rent, Food, Travel>>

(***************************************************************************)
(* Concurrent requests.  The server handles requests in parallel and each  *)
(* query of a request reads the rows committed at that moment, so the      *)
(* three queries of one /api/recommendations request (recommender.py line  *)
(* 51 called from app.py line 248, line 80, and line 29 called from        *)
(* app.py line 249) are three steps, and a write request of the same user  *)
(* may commit between any two of them.                                     *)
(***************************************************************************)
\* app.py line 248 entering generate_recommendations: its own query (line
\* 51); lines 52-78 then work on the dataframe read here.
recommendations_query(user) ==
    /\ inflight = Idle
    /\ inflight' = [pc |-> "line_80", user |-> user, db |-> rows]
    /\ UNCHANGED <<rows, resp>>

\* recommender.py line 80: the nested predict_next_month_expense queries
\* again; generate_recommendations returns.
recommendations_predict ==
    /\ inflight.pc = "line_80"
    /\ inflight' = [pc |-> "line_249", user |-> inflight.user,
                    recs |-> generate_recommendations(inflight.db, rows,
                                                      inflight.user)]
    /\ UNCHANGED <<rows, resp>>

\* app.py lines 249-250: the handler's own predict_next_month_expense
\* queries a third time; the response is sent.
recommendations_respond ==
    /\ inflight.pc = "line_249"
    /\ resp' = IF \E i \in 1..Len(inflight.recs) : inflight.recs[i].rule = "raise"
               THEN [kind |-> "error", user |-> inflight.user]
               ELSE [kind |-> "recommendations", user |-> inflight.user,
                     recommendations |-> inflight.recs,
                     next_month_expense_prediction |->
                         predict_next_month_expense(rows, inflight.user)]
    /\ inflight' = Idle
    /\ UNCHANGED rows

ConcurrentDates == {Date(2024, 2), Date(2024, 10)}
ConcurrentAmounts == {Amount(100), Amount(300)}
ConcurrentFiles ==
    {[present |-> TRUE, headers |-> TRUE,
      rows |-> <<CsvRow(Date(2024, 10), Amount(300), "Expense")>>]}

NextConcurrent ==
    \/ \E u \in {1} : recommendations_query(u)
    \/ recommendations_predict
    \/ recommendations_respond
    \/ \E d \in ConcurrentDates, a \in ConcurrentAmounts,
          t \in {"income", "expense"} : add_transaction(1, d, a, t, Food)
    \/ \E f \in ConcurrentFiles : upload_transactions(1, f)
    \/ \E id \in 1..MaxId : delete_transaction(1, id)
    \/ delete_month(1, 2024, 2)
    \/ delete_year(1, 2024)

SpecConcurrent == Init /\ [][NextConcurrent]_vars

\* The tables a response can have been computed from.
ConcurrentViews ==
    TablesOver({Tx(1, d.y, d.m, a.v, t, c) :
                   d \in ConcurrentDates, a \in ConcurrentAmounts,
                   t \in {"income", "expense"}, c \in {Food, Rent}},
               MaxRows)

\* C11: every recommendations response is computed from one consistent
\* view of the user's transactions: the predicted expense in its last item
\* is the rounded next_month_expense_prediction of the same response, and
\* one set of transactions gives both the items and the prediction, also
\* when write requests of the user commit between the handler's queries.
C11_OneConsistentView ==
    Recommended =>
        LET recs == resp.recommendations
        IN  /\ Priority(recs[Len(recs)]) = 4 =>
                  recs[Len(recs)].pred0
                      = RoundHalfEven(resp.next_month_expense_prediction)
            /\ \E view \in ConcurrentViews :
                  /\ recs = generate_recommendations(view, view, resp.user)
                  /\ resp.next_month_expense_prediction
                        = predict_next_month_expense(view, resp.user)

============================================================================
